---- MODULE Spec2Model ----
(***************************************************************************)
(* Feature Execution Orchestrator of automaker.                            *)
(*                                                                         *)
(*   FeatureExecutor      src/app/electron/services/feature-executor.js    *)
(*   McpServerFactory     src/apps/server/src/services/feature-loader.ts   *)
(*   FeatureLoader        src/apps/server/src/services/feature-loader.ts   *)
(*   running agents map   src/apps/server/src/routes/running-agents.ts     *)
(*   createEventEmitter   src/apps/server/src/lib/events.ts               *)
(*                                                                         *)
(* The caller of FeatureExecutor (the service that owns the execution      *)
(* context, checks for a duplicate run, registers and releases it, and     *)
(* cancels it) and the Electron feature loader's loadFeatures and          *)
(* updateFeatureStatus are not among the sources; they are modelled from   *)
(* spec.md sections 3, 4.1, 4.2, 4.4 and 5.                                *)
(***************************************************************************)
EXTENDS Integers, Sequences, FiniteSets, TLC

(***************************************************************************)
(* Bounds of the model.                                                    *)
(***************************************************************************)
\* Number of run / resume / commitOnly invocations issued in one behaviour.
NumCalls == 2
\* Largest number of units the agent runtime streams in one run.
MaxUnits == 2

\* Number of Feature Store calls (update, Gateway write, delete) issued in
\* one behaviour.
NumOps == 2

\* Number of suggestions generations started in one behaviour.
MaxGenerations == 3

Calls == 1..NumCalls
Ops == 1..NumOps
Generations == 1..MaxGenerations
\* The listener functions handed to subscribe.
Callbacks == {"cb1", "cb2", "cb3"}
FeatureIds == {"feature-1", "feature-2"}
Kinds == {"run", "resume", "commitOnly"}

\* Feature.status (spec.md section 3).
Statuses == {"backlog", "in_progress", "verified", "waiting_approval", "error"}
\* Variant of the tool's schema that accepts every status.
AnyStatus == Statuses
\* z.enum of the UpdateFeatureStatus tool.
RequestableStatuses == {"backlog", "in_progress", "verified"}
\* msg.type / block.type of a streamed unit: an assistant message with a text
\* block, one with a tool_use block, or any other message.
UnitKinds == {"text", "tool_use", "other"}

\* null: no feature.json under that key (FeatureLoader.get returns null).
NoFeature == [id |-> "null", status |-> "null", skipTests |-> FALSE]
FeatureRecords == [id : FeatureIds, status : Statuses, skipTests : BOOLEAN]

NoEntry == [featureId |-> "null", isAutoMode |-> FALSE]

NoOutcome == [call |-> 0, status |-> "none", passes |-> FALSE, message |-> "none",
              via |-> "none"]
NoTool == [by |-> 0, featureId |-> "null", final |-> "null", text |-> "none"]
NoExecution == [query |-> "null", abortController |-> "null", active |-> FALSE]
\* No Feature Store call / no merge request issued in that slot.
NoOp == [pc |-> "idle", kind |-> "none", featureId |-> "null", updates |-> <<>>,
         read |-> NoFeature, result |-> "none"]
\* A generateSuggestions call that was not made.
NoGeneration == [pc |-> "idle", aborted |-> FALSE, ended |-> "none",
                 complete |-> 0, error |-> 0]
NoMerge == [pc |-> "idle", squash |-> FALSE, integrated |-> FALSE,
            response |-> "none"]

VARIABLES
    store,             \* .automaker/features/{featureId}/feature.json
    runningAgentsMap,  \* running-agents.ts: featureId -> RunningAgent
    pc,                \* position of each invocation in its executor method
    kind,              \* which executor method the invocation runs
    feature,           \* the feature object passed in at run start
    execution,         \* the Execution Handle of the invocation
    pulled,            \* units received from currentQuery so far
    transcript,        \* stream units written to the context file by the run
    relayed,           \* stream units sent to the renderer by the run
    loopExit,          \* how the for-await loop was left: exhausted or break
    outcome,           \* the Outcome (or error) last handed back to a caller
    lastTool,          \* the last UpdateFeatureStatus tool call of a run in
                       \* progress and the result handed to its agent
    phases,            \* auto_mode_phase events sent to the renderer by the run
    resultEvent,       \* the run's closing auto_mode_progress event
    lastWrite,         \* status of the last successful UpdateFeatureStatus
                       \* write made for the run's own feature during the run
    autoLoopRunning,   \* running-agents.ts: autoLoopRunning
    unregisterCalls,   \* unregisterRunningAgent calls made so far, per id
    outstanding,       \* runs that registered the id and have not unregistered it
    subscribers,       \* events.ts: the Set of callbacks, in insertion order
    emitting,          \* an emit(type, payload) call is fanning out
    cursor,            \* entries of subscribers the for-of loop has passed
    delivered,         \* callbacks invoked by the current emit, in order
    atPublish,         \* subscribers when the current emit was called
    removed,           \* callbacks deleted from subscribers during the emit
    threw,             \* callbacks whose invocation threw during the emit
    emitResult,        \* how the last emit call ended: returned or threw
    subscriptions,     \* per callback: subscribe calls not yet undone, and
                       \* whether an unsubscribe function of it was called
    ops,               \* Feature Store calls in flight: update, the Gateway's
                       \* status write, delete
    store0,            \* the Feature Store before any of the calls in ops
                       \* was made
    agentOutput,       \* .automaker/features/{featureId}/agent-output.md exists
    worktree,          \* .automaker/worktrees/{featureId} exists
    branch,            \* the git branch feature/{featureId} exists
    merged,            \* the feature's branch is merged and committed
    mergeReq,          \* POST /merge requests, one per feature
    lastCancel,        \* what the last cancel(featureId) call found
    isRunning,         \* suggestions.ts: let isRunning
    currentAbortController, \* the generation whose controller it is, 0 for null
    generation         \* the generateSuggestions calls made so far

runVars == <<store, pc, kind, feature, execution, pulled, transcript, relayed,
             loopExit, outcome, lastTool, phases, resultEvent, lastWrite>>
registryVars == <<autoLoopRunning, unregisterCalls, outstanding>>
busVars == <<subscribers, emitting, cursor, delivered, atPublish, removed, threw,
            emitResult, subscriptions>>

storeVars == <<ops, store0, agentOutput>>
gitVars == <<worktree, branch, merged, mergeReq>>
suggestVars == <<isRunning, currentAbortController, generation>>

vars == <<runVars, runningAgentsMap, registryVars, busVars, storeVars, gitVars,
          lastCancel, suggestVars>>

(***************************************************************************)
(* Feature Store.                                                          *)
(***************************************************************************)
\* FeatureLoader.getAll: every feature.json that parses and carries an id.
\* The Electron loader's loadFeatures(projectPath) is modelled by it.
loadFeatures == {store[k] : k \in {k2 \in FeatureIds : store[k2] # NoFeature}}

\* Variant of the lookup that falls back to the key's stored record when no
\* loaded feature carries the id, so that a missing feature goes unnoticed.
FindFeatureUnchecked(features, featureId) ==
    IF \E f \in features : f.id = featureId
    THEN CHOOSE f \in features : f.id = featureId
    ELSE [id |-> featureId, status |-> "backlog", skipTests |-> FALSE]

\* features.find((f) => f.id === featureId); undefined is NoFeature.
FindFeature(features, featureId) ==
    IF \E f \in features : f.id = featureId
    THEN CHOOSE f \in features : f.id = featureId
    ELSE NoFeature

\* Variant of the merge that writes the supplied fields only: a field that
\* was not supplied loses its value.
MergeReplaces(feat, updates) ==
    [k \in DOMAIN feat |-> IF k \in DOMAIN updates THEN updates[k] ELSE NoFeature[k]]

\* Variant of the merge with the spread order swapped,
\* { ...updates, ...feature }: the stored fields win.
MergeStoredWins(feat, updates) == feat

\* { ...feature, ...updates }
Merge(feat, updates) ==
    [k \in DOMAIN feat |-> IF k \in DOMAIN updates THEN updates[k] ELSE feat[k]]

\* FeatureLoader.update: read feature.json, merge, write back. Callers test
\* for a missing feature first (update throws "not found").
update(featureId, updates) ==
    [store EXCEPT ![featureId] = Merge(@, updates)]

\* The callback handed to createFeatureToolsServer
\* (featureLoader.updateFeatureStatus): applies the status through update.
updateFeatureStatus(featureId, status) ==
    update(featureId, [status |-> status])

(***************************************************************************)
(* Status Mutation Gateway: the UpdateFeatureStatus tool handler.          *)
(***************************************************************************)
\* Variants of the rewrite rule: one that never rewrites, one that rewrites
\* every verified request whatever skipTests is.
FinalStatusNoRewrite(feat, requested) == requested

FinalStatusAlwaysRewrites(feat, requested) ==
    IF requested = "verified" THEN "waiting_approval" ELSE requested

\* let finalStatus = args.status; if (verified && skipTests === true) ...
FinalStatus(feat, requested) ==
    IF requested = "verified" /\ feat.skipTests = TRUE
    THEN "waiting_approval"
    ELSE requested

\* Variant of the handler without try / catch: the error leaves the handler.
ToolNoCatch(error) == "thrown"

\* catch (error) { return { content: [{ type: "text", text: `Failed to
\* update feature status: ${error.message}` }] } }
ToolCatch(error) == "failed"

\* Variant of the confirmation that never mentions a conversion.
StatusMessageDirect(final, requested) == "direct"

\* The confirmation text: converted or direct.
StatusMessage(final, requested) ==
    IF final # requested THEN "converted" ELSE "direct"

(***************************************************************************)
(* Running-Set Registry.                                                   *)
(***************************************************************************)
registerRunningAgent(featureId, isAutoMode) ==
    [runningAgentsMap EXCEPT
        ![featureId] = [featureId |-> featureId, isAutoMode |-> isAutoMode]]

\* Variant of unregisterRunningAgent that deletes nothing.
unregisterNothing(featureId) == runningAgentsMap

\* runningAgentsMap.delete(featureId)
unregisterRunningAgent(featureId) ==
    [runningAgentsMap EXCEPT ![featureId] = NoEntry]

isAgentRunning(featureId) == runningAgentsMap[featureId] # NoEntry

(***************************************************************************)
(* Execution Handle.                                                       *)
(***************************************************************************)
\* The invocation holds an Execution Handle: it was accepted and has not
\* left its executor method yet.
Live(c) == pc[c] \in {"planning", "action", "stream", "verify", "exit"}

\* The run that holds the Execution Handle of feature f.
HoldersOf(f) == {c \in Calls : Live(c) /\ feature[c].id = f}

\* Variant of cancel that flips the liveness flag.
CancelFlips(e) == [e EXCEPT !.active = ~@]

\* What cancel does to a handle: the liveness flag goes off and a live
\* cancellation token is signalled; a token that was cleared or signalled
\* already is left alone.
Cancelled(e) ==
    [e EXCEPT !.active = FALSE,
              !.abortController = IF @ = "live" THEN "aborted" ELSE @]

\* execution.isActive()
isActive(c) == execution[c].active

\* execution.query = null; execution.abortController = null;
ClearHandle(e) == [e EXCEPT !.query = "null", !.abortController = "null"]

\* A caller that does not test for a duplicate run.
BusyUnchecked(featureId) == FALSE

\* The duplicate-run test of the caller: is the feature registered already?
Busy(featureId) == isAgentRunning(featureId)

(***************************************************************************)
(* FeatureExecutor.                                                        *)
(***************************************************************************)
\* A loop that never tests the handle.
LoopNeverBreaks(c) == TRUE

\* The loop test of "for await (const msg of currentQuery)":
\* if (!execution.isActive()) break;
LoopContinues(c) == isActive(c)

\* Verification against the feature object passed in at run start.
CachedFeature(c) == feature[c]

\* updatedFeatures.find((f) => f.id === feature.id) over the re-loaded list.
UpdatedFeature(c) == FindFeature(loadFeatures, feature[c].id)

\* A verification that accepts verified only.
PassesVerifiedOnly(updatedFeature) == updatedFeature.status = "verified"

\* passes = status === "verified" || (skipTests && status === "waiting_approval")
\* (undefined, for a feature that is gone, is falsy).
Passes(updatedFeature) ==
    \/ updatedFeature.status = "verified"
    \/ (updatedFeature.skipTests /\ updatedFeature.status = "waiting_approval")

\* What the method returns once the loop has been left: implementFeature and
\* resumeFeatureWithContext verify against the store, commitChangesOnly
\* returns passes: true.
ReturnValue(c) ==
    [call |-> c,
     status |-> "returned",
     passes |-> IF kind[c] = "commitOnly" THEN TRUE ELSE Passes(UpdatedFeature(c)),
     message |-> "response",
     via |-> loopExit[c]]

\* Catch blocks that recognise no abort, or take every error for one.
IsAbortErrorNever(err) == FALSE

IsAbortErrorAlways(err) == TRUE

\* error instanceof AbortError || error?.name === "AbortError"
IsAbortError(err) == err = "AbortError"

\* The catch block: an abort returns { passes: false, message: "... aborted" },
\* anything else is thrown again.
CatchOutcome(c, err) ==
    IF IsAbortError(err)
    THEN [call |-> c, status |-> "returned", passes |-> FALSE, message |-> "aborted",
          via |-> "abort"]
    ELSE [call |-> c, status |-> "threw", passes |-> FALSE, message |-> "none",
          via |-> "error"]

\* A catch block that leaves the handle as it was.
CatchNoCleanup(e) == e

\* The cleanup of the catch block, on both of its paths.
CatchCleanup(e) == ClearHandle(e)

(***************************************************************************)
(* Events sent to the renderer.                                            *)
(***************************************************************************)
\* block.type === "text" / "tool_use": the units the loop body handles.
Handled(u) == u \in {"text", "tool_use"}

\* contextManager.writeToContextFile(projectPath, feature.id, ...) for unit
\* number n of the stream: the text, or the tool note.
Transcribe(content, u, n) == IF Handled(u) THEN Append(content, n) ELSE content

\* Variant of the relay that puts the newest event first.
RelayNewestFirst(sent, u, n) == IF Handled(u) THEN <<n>> \o sent ELSE sent

\* sendToRenderer({ type: "auto_mode_progress" | "auto_mode_tool", ... })
\* for unit number n of the stream.
RelayUnit(sent, u, n) == IF Handled(u) THEN Append(sent, n) ELSE sent

\* The order of auto_mode_phase events of the spec's run algorithm.
PhaseOrder == <<"planning", "action", "verification">>

\* phase: "action" is sent by implementFeature and resumeFeatureWithContext;
\* commitChangesOnly sends progress text only.
ActionPhase(k, sent) ==
    IF k \in {"run", "resume"} THEN Append(sent, "action") ELSE sent

\* phase: "verification" is sent by implementFeature only.
VerificationPhase(k, sent) ==
    IF k = "run" THEN Append(sent, "verification") ELSE sent

\* resultMsg / finalMsg: a success text or a needs-attention text, chosen
\* by passes.
ResultMsg(passes) == IF passes THEN "pass" ELSE "fail"

TypeOK ==
    /\ store \in [FeatureIds -> FeatureRecords \cup {NoFeature}]
    /\ pc \in [Calls -> {"idle", "planning", "action", "stream", "verify", "exit",
                         "done"}]
    /\ kind \in [Calls -> Kinds \cup {"none"}]
    /\ feature \in [Calls -> FeatureRecords \cup {NoFeature}]
    /\ pulled \in [Calls -> 0..MaxUnits]
    /\ loopExit \in [Calls -> {"none", "exhausted", "break"}]
    /\ outcome.status \in {"none", "returned", "threw", "busy"}
    /\ \A c \in Calls :
        /\ execution[c].query \in {"null", "open"}
        /\ execution[c].abortController \in {"null", "live", "aborted"}
        /\ execution[c].active \in BOOLEAN
        /\ Len(transcript[c]) <= MaxUnits
        /\ Len(relayed[c]) <= MaxUnits

\* Everything but the Feature Store and the files beside it.
InitRest ==
    /\ runningAgentsMap = [f \in FeatureIds |-> NoEntry]
    /\ pc = [c \in Calls |-> "idle"]
    /\ kind = [c \in Calls |-> "none"]
    /\ feature = [c \in Calls |-> NoFeature]
    /\ execution = [c \in Calls |-> NoExecution]
    /\ pulled = [c \in Calls |-> 0]
    /\ transcript = [c \in Calls |-> <<>>]
    /\ relayed = [c \in Calls |-> <<>>]
    /\ loopExit = [c \in Calls |-> "none"]
    /\ outcome = NoOutcome
    /\ lastTool = NoTool
    /\ phases = [c \in Calls |-> <<>>]
    /\ resultEvent = [c \in Calls |-> "none"]
    /\ lastWrite = [c \in Calls |-> "none"]
    /\ autoLoopRunning = FALSE
    /\ unregisterCalls = [f \in FeatureIds |-> 0]
    /\ outstanding = [f \in FeatureIds |-> 0]
    /\ subscribers = <<>>
    /\ emitting = FALSE
    /\ cursor = 0
    /\ delivered = <<>>
    /\ atPublish = <<>>
    /\ removed = {}
    /\ threw = {}
    /\ emitResult = "none"
    /\ subscriptions = [cb \in Callbacks |-> [live |-> 0, spent |-> FALSE]]
    /\ ops = [o \in Ops |-> NoOp]
    /\ mergeReq = [f \in FeatureIds |-> NoMerge]
    /\ merged = [f \in FeatureIds |-> FALSE]
    /\ lastCancel = "none"
    /\ isRunning = FALSE
    /\ currentAbortController = 0
    /\ generation = [g \in Generations |-> NoGeneration]

\* A stored feature has its agent output, its worktree and its branch.
InitDisk ==
    /\ agentOutput = [f \in FeatureIds |-> store[f] # NoFeature]
    /\ worktree = [f \in FeatureIds |-> store[f] # NoFeature]
    /\ branch = [f \in FeatureIds |-> store[f] # NoFeature]

Init ==
    /\ store \in {s \in [FeatureIds -> FeatureRecords \cup {NoFeature}] :
                    /\ s["feature-1"] # NoFeature
                    /\ s["feature-2"] = NoFeature
                    /\ \A k \in FeatureIds : s[k] # NoFeature => s[k].id = k}
    /\ store0 = [f \in FeatureIds |-> NoFeature]
    /\ InitDisk
    /\ InitRest

\* The caller starts run, resume or commitOnly for a stored feature: a
\* feature that is registered already is refused with Busy; otherwise the
\* Execution Handle and the Running-Set entry are created and the executor
\* method is entered.
RunStart(c, k, f) ==
    /\ pc[c] = "idle"
    /\ \A d \in Calls : d < c => pc[d] # "idle"
    /\ store[f] # NoFeature
    /\ IF Busy(f)
       THEN /\ pc' = [pc EXCEPT ![c] = "done"]
            /\ outcome' = [call |-> c, status |-> "busy", passes |-> FALSE,
                           message |-> "none", via |-> "busy"]
            /\ UNCHANGED <<runningAgentsMap, kind, feature, execution>>
       ELSE /\ runningAgentsMap' = registerRunningAgent(f, FALSE)
            /\ execution' = [execution EXCEPT ![c] =
                  [query |-> "null", abortController |-> "null", active |-> TRUE]]
            /\ kind' = [kind EXCEPT ![c] = k]
            /\ feature' = [feature EXCEPT ![c] = store[f]]
            /\ pc' = [pc EXCEPT ![c] = IF k = "run" THEN "planning" ELSE "action"]
            /\ UNCHANGED outcome
    /\ UNCHANGED <<store, pulled, transcript, relayed, loopExit, lastTool, phases,
                   resultEvent, lastWrite>>
    /\ UNCHANGED <<registryVars, busVars, storeVars, gitVars, lastCancel, suggestVars>>

\* implementFeature up to the sleep: planning message and phase event, the
\* AbortController is created and stored in the handle.
Planning(c) ==
    /\ pc[c] = "planning"
    /\ phases' = [phases EXCEPT ![c] = Append(@, "planning")]
    /\ execution' = [execution EXCEPT ![c].abortController = "live"]
    /\ pc' = [pc EXCEPT ![c] = "action"]
    /\ UNCHANGED <<store, runningAgentsMap, kind, feature, pulled, transcript,
                   relayed, loopExit, outcome, lastTool, resultEvent, lastWrite>>
    /\ UNCHANGED <<registryVars, busVars, storeVars, gitVars, lastCancel, suggestVars>>

\* The action phase event and query({ prompt, options }); resume and
\* commitOnly create their AbortController here.
Action(c) ==
    /\ pc[c] = "action"
    /\ execution' = [execution EXCEPT
          ![c].query = "open",
          ![c].abortController = IF kind[c] = "run" THEN @ ELSE "live"]
    /\ phases' = [phases EXCEPT ![c] = ActionPhase(kind[c], @)]
    /\ pc' = [pc EXCEPT ![c] = "stream"]
    /\ UNCHANGED <<store, runningAgentsMap, kind, feature, pulled, transcript,
                   relayed, loopExit, outcome, lastTool, resultEvent, lastWrite>>
    /\ UNCHANGED <<registryVars, busVars, storeVars, gitVars, lastCancel, suggestVars>>

\* One iteration of the for-await loop: the next unit arrives; an inactive
\* handle breaks out of the loop, otherwise a text or tool_use block is
\* written to the context file and sent to the renderer. transcript and
\* relayed hold the numbers of the stream units handled; the note written
\* before the first tool use is not a stream unit and is left out.
PullUnit(c, u) ==
    /\ pc[c] = "stream"
    /\ pulled[c] < MaxUnits
    /\ pulled' = [pulled EXCEPT ![c] = @ + 1]
    /\ IF LoopContinues(c)
       THEN /\ transcript' = [transcript EXCEPT ![c] =
                  Transcribe(@, u, pulled[c] + 1)]
            /\ relayed' = [relayed EXCEPT ![c] = RelayUnit(@, u, pulled[c] + 1)]
            /\ UNCHANGED <<pc, execution, loopExit>>
       ELSE /\ pc' = [pc EXCEPT ![c] = "verify"]
            /\ execution' = [execution EXCEPT ![c] = ClearHandle(@)]
            /\ loopExit' = [loopExit EXCEPT ![c] = "break"]
            /\ UNCHANGED <<transcript, relayed>>
    /\ UNCHANGED <<store, runningAgentsMap, kind, feature, outcome, lastTool,
                   phases, resultEvent, lastWrite>>
    /\ UNCHANGED <<registryVars, busVars, storeVars, gitVars, lastCancel, suggestVars>>

\* The stream is exhausted: the loop ends and the handle's references are
\* cleared.
StreamEnd(c) ==
    /\ pc[c] = "stream"
    /\ pc' = [pc EXCEPT ![c] = "verify"]
    /\ execution' = [execution EXCEPT ![c] = ClearHandle(@)]
    /\ loopExit' = [loopExit EXCEPT ![c] = "exhausted"]
    /\ UNCHANGED <<store, runningAgentsMap, kind, feature, pulled, transcript,
                   relayed, outcome, lastTool, phases, resultEvent, lastWrite>>
    /\ UNCHANGED <<registryVars, busVars, storeVars, gitVars, lastCancel, suggestVars>>

\* After the loop: verification phase, the features are loaded again and
\* the result is returned (commitOnly returns without verifying).
Verify(c) ==
    /\ pc[c] = "verify"
    /\ outcome' = ReturnValue(c)
    /\ phases' = [phases EXCEPT ![c] = VerificationPhase(kind[c], @)]
    /\ resultEvent' = [resultEvent EXCEPT ![c] = ResultMsg(ReturnValue(c).passes)]
    /\ pc' = [pc EXCEPT ![c] = "exit"]
    /\ UNCHANGED <<store, runningAgentsMap, kind, feature, execution, pulled,
                   transcript, relayed, loopExit, lastTool, lastWrite>>
    /\ UNCHANGED <<registryVars, busVars, storeVars, gitVars, lastCancel, suggestVars>>

\* An await inside the try block throws: an AbortError comes from the agent
\* runtime once its AbortController has been aborted, any other error from
\* the runtime or from a file operation at any point.
Raise(c, err) ==
    /\ pc[c] \in {"planning", "action", "stream", "verify"}
    /\ err = "AbortError" => (pc[c] = "stream" /\ execution[c].abortController = "aborted")
    /\ outcome' = CatchOutcome(c, err)
    /\ execution' = [execution EXCEPT ![c] = CatchCleanup(@)]
    /\ \E sent \in BOOLEAN :
          /\ sent => pc[c] = "verify" /\ kind[c] = "run"
          /\ phases' = [phases EXCEPT ![c] =
                IF sent THEN VerificationPhase(kind[c], @) ELSE @]
    /\ pc' = [pc EXCEPT ![c] = "exit"]
    /\ UNCHANGED <<store, runningAgentsMap, kind, feature, pulled, transcript,
                   relayed, loopExit, lastTool, resultEvent, lastWrite>>
    /\ UNCHANGED <<registryVars, busVars, storeVars, gitVars, lastCancel, suggestVars>>

\* The caller's release of the handle and of the Running-Set entry, on
\* every way out of the executor method. The locals of the finished
\* invocation and its agent's conversation are gone.
Release(c) ==
    /\ pc[c] = "exit"
    /\ runningAgentsMap' = unregisterRunningAgent(feature[c].id)
    /\ execution' = [execution EXCEPT ![c].active = FALSE]
    /\ pc' = [pc EXCEPT ![c] = "done"]
    /\ kind' = [kind EXCEPT ![c] = "none"]
    /\ feature' = [feature EXCEPT ![c] = NoFeature]
    /\ pulled' = [pulled EXCEPT ![c] = 0]
    /\ transcript' = [transcript EXCEPT ![c] = <<>>]
    /\ relayed' = [relayed EXCEPT ![c] = <<>>]
    /\ loopExit' = [loopExit EXCEPT ![c] = "none"]
    /\ lastTool' = IF lastTool.by = c THEN NoTool ELSE lastTool
    /\ phases' = [phases EXCEPT ![c] = <<>>]
    /\ resultEvent' = [resultEvent EXCEPT ![c] = "none"]
    /\ lastWrite' = [lastWrite EXCEPT ![c] = "none"]
    /\ UNCHANGED <<store, outcome>>
    /\ UNCHANGED <<registryVars, busVars, storeVars, gitVars, lastCancel, suggestVars>>

\* cancel(featureId): the handle of the feature's run becomes inactive and
\* its cancellation token is signalled.
Cancel(f) ==
    /\ \E c \in Calls : Live(c) /\ feature[c].id = f /\ isActive(c)
    /\ execution' = [c \in Calls |->
          IF Live(c) /\ feature[c].id = f
          THEN Cancelled(execution[c])
          ELSE execution[c]]
    /\ UNCHANGED <<store, runningAgentsMap, pc, kind, feature, pulled, transcript,
                   relayed, loopExit, outcome, lastTool, phases, resultEvent,
                   lastWrite>>
    /\ UNCHANGED <<registryVars, busVars, storeVars, gitVars, lastCancel, suggestVars>>

\* The agent of run c calls the UpdateFeatureStatus tool. lastTool is the
\* text handed back: "Successfully updated feature <id> to status <final>",
\* with "(converted from ...)" when the status was rewritten, or "Failed to
\* update feature status: Feature <id> not found".
UpdateFeatureStatusTool(c, featureId, status) ==
    /\ pc[c] = "stream"
    /\ LET feat == FindFeature(loadFeatures, featureId)
           finalStatus == FinalStatus(feat, status)
       IN IF feat = NoFeature
          THEN /\ lastTool' = [by |-> c, featureId |-> featureId, final |-> "null",
                               text |-> ToolCatch("not_found")]
               /\ UNCHANGED <<store, lastWrite>>
          ELSE /\ store' = updateFeatureStatus(featureId, finalStatus)
               /\ lastTool' = [by |-> c, featureId |-> featureId,
                               final |-> finalStatus,
                               text |-> StatusMessage(finalStatus, status)]
               /\ lastWrite' = [lastWrite EXCEPT ![c] =
                     IF featureId = feature[c].id THEN finalStatus ELSE @]
    /\ UNCHANGED <<runningAgentsMap, pc, kind, feature, execution, pulled,
                   transcript, relayed, loopExit, outcome, phases, resultEvent>>
    /\ UNCHANGED <<registryVars, busVars, storeVars, gitVars, lastCancel, suggestVars>>

Next ==
    \/ \E c \in Calls, k \in Kinds, f \in FeatureIds : RunStart(c, k, f)
    \/ \E c \in Calls : Planning(c)
    \/ \E c \in Calls : Action(c)
    \/ \E c \in Calls, u \in UnitKinds : PullUnit(c, u)
    \/ \E c \in Calls : StreamEnd(c)
    \/ \E c \in Calls : Verify(c)
    \/ \E c \in Calls : Release(c)
    \/ \E c \in Calls, err \in {"AbortError", "Error"} : Raise(c, err)
    \/ \E f \in FeatureIds : Cancel(f)
    \/ \E c \in Calls, f \in FeatureIds, s \in RequestableStatuses :
          UpdateFeatureStatusTool(c, f, s)

Spec == Init /\ [][Next]_vars

(***************************************************************************)
(* The Running-Set Registry on its own: the exported functions of          *)
(* running-agents.ts called in any order by other services.                *)
(***************************************************************************)
\* Largest number of unregisterRunningAgent calls counted per feature id.
MaxUnregisters == 2

InitRegistry ==
    /\ Init
    /\ store["feature-1"] = [id |-> "feature-1", status |-> "backlog",
                             skipTests |-> FALSE]

RegisterRunningAgent(featureId, isAutoMode) ==
    /\ runningAgentsMap' = registerRunningAgent(featureId, isAutoMode)
    /\ UNCHANGED <<storeVars, gitVars, lastCancel, suggestVars, runVars, registryVars, busVars>>

UnregisterRunningAgent(featureId) ==
    /\ unregisterCalls[featureId] < MaxUnregisters
    /\ runningAgentsMap' = unregisterRunningAgent(featureId)
    /\ unregisterCalls' = [unregisterCalls EXCEPT ![featureId] = @ + 1]
    /\ UNCHANGED <<storeVars, gitVars, lastCancel, suggestVars, runVars, autoLoopRunning,
                   outstanding, busVars>>

SetAutoLoopRunning(running) ==
    /\ autoLoopRunning' = running
    /\ UNCHANGED <<storeVars, gitVars, lastCancel, suggestVars, runVars, runningAgentsMap,
                   unregisterCalls, outstanding, busVars>>

NextRegistry ==
    \/ \E f \in FeatureIds, a \in BOOLEAN : RegisterRunningAgent(f, a)
    \/ \E f \in FeatureIds : UnregisterRunningAgent(f)
    \/ \E b \in BOOLEAN : SetAutoLoopRunning(b)

SpecRegistry == InitRegistry /\ [][NextRegistry]_vars

(***************************************************************************)
(* The registry as its callers use it: a run registers its feature id when *)
(* it starts and unregisters it when it ends, and runs of one id may       *)
(* overlap.                                                                *)
(***************************************************************************)
\* Largest number of runs of one id that are registered at the same time.
MaxRuns == 3

RunRegisters(featureId, isAutoMode) ==
    /\ outstanding[featureId] < MaxRuns
    /\ runningAgentsMap' = registerRunningAgent(featureId, isAutoMode)
    /\ outstanding' = [outstanding EXCEPT ![featureId] = @ + 1]
    /\ UNCHANGED <<storeVars, gitVars, lastCancel, suggestVars, runVars, autoLoopRunning,
                   unregisterCalls, busVars>>

RunUnregisters(featureId) ==
    /\ outstanding[featureId] > 0
    /\ runningAgentsMap' = unregisterRunningAgent(featureId)
    /\ outstanding' = [outstanding EXCEPT ![featureId] = @ - 1]
    /\ UNCHANGED <<storeVars, gitVars, lastCancel, suggestVars, runVars, autoLoopRunning,
                   unregisterCalls, busVars>>

\* GET /: Array.from(runningAgentsMap.values())
listAll == {runningAgentsMap[f] : f \in {g \in FeatureIds : isAgentRunning(g)}}

NextOverlap ==
    \/ \E f \in FeatureIds, a \in BOOLEAN : RunRegisters(f, a)
    \/ \E f \in FeatureIds : RunUnregisters(f)
    \/ \E b \in BOOLEAN : SetAutoLoopRunning(b)

SpecOverlap == InitRegistry /\ [][NextOverlap]_vars

(***************************************************************************)
(* Event Bus: createEventEmitter of events.ts. subscribers is the Set of   *)
(* callbacks in insertion order; emit walks it with for-of, which visits   *)
(* the entries that are in the Set when their turn comes: an entry added   *)
(* during the walk is visited, a deleted one is not.                       *)
(***************************************************************************)
\* Largest number of callback invocations of one emit call.
MaxDeliveries == 4

\* What one invocation of a callback does: return, throw, or call subscribe
\* or an unsubscribe function before it returns.
Behaviours == {"return", "throw", "subscribe", "unsubscribe"}

Range(s) == {s[i] : i \in 1..Len(s)}

IndexOf(s, x) == CHOOSE i \in 1..Len(s) : s[i] = x

\* subscribers.add(callback): a callback already in the Set keeps its place.
SetAdd(subs, callback) ==
    IF callback \in Range(subs) THEN subs ELSE Append(subs, callback)

\* subscribers.delete(callback)
SetDelete(subs, callback) ==
    LET Keep(x) == x # callback IN SelectSeq(subs, Keep)

\* Variant of the walk that runs from the newest entry to the oldest.
NextCallbackReversed(subs, passed) == subs[Len(subs) - passed]

\* for (const callback of subscribers): the entry after those passed.
NextCallback(subs, passed) == subs[passed + 1]

\* Variant of the walk that counts positions and takes no notice of a delete.
AfterDeleteByIndex(subs, passed, m) == passed + 1

\* The entries passed once the callback at passed + 1 has deleted m and
\* returned: deleting an entry that was passed already, or the running
\* callback's own, leaves every later entry to be visited.
AfterDelete(subs, passed, m) ==
    IF m \in Range(subs) /\ IndexOf(subs, m) <= passed + 1
    THEN passed ELSE passed + 1

\* Variant of the loop body without try / catch: a throw leaves emit.
ThrowPropagates(does) == does # "throw"

\* try { callback(type, payload) } catch (error) { console.error(...) }:
\* the loop goes on whatever the callback did.
LoopGoesOn(does) == TRUE

\* The emit record of a finished call is dropped when the bus is used again.
ForgetEmit ==
    /\ cursor' = 0
    /\ delivered' = <<>>
    /\ atPublish' = <<>>
    /\ removed' = {}
    /\ threw' = {}
    /\ emitResult' = "none"

InitBus ==
    /\ Init
    /\ store["feature-1"] = [id |-> "feature-1", status |-> "backlog",
                             skipTests |-> FALSE]

\* subscribe(callback) called while no emit is fanning out.
Subscribe(callback) ==
    /\ ~emitting
    /\ subscribers' = SetAdd(subscribers, callback)
    /\ ForgetEmit
    /\ UNCHANGED <<storeVars, gitVars, lastCancel, suggestVars, runVars, runningAgentsMap, registryVars,
                   subscriptions, emitting>>

\* The function returned by subscribe(callback), called while no emit is
\* fanning out.
Unsubscribe(callback) ==
    /\ ~emitting
    /\ subscribers' = SetDelete(subscribers, callback)
    /\ ForgetEmit
    /\ UNCHANGED <<storeVars, gitVars, lastCancel, suggestVars, runVars, runningAgentsMap, registryVars,
                   subscriptions, emitting>>

\* emit(type, payload) is called: the for-of loop starts.
Emit ==
    /\ ~emitting
    /\ emitting' = TRUE
    /\ cursor' = 0
    /\ delivered' = <<>>
    /\ atPublish' = subscribers
    /\ removed' = {}
    /\ threw' = {}
    /\ emitResult' = "none"
    /\ UNCHANGED <<storeVars, gitVars, lastCancel, suggestVars, runVars, runningAgentsMap, registryVars,
                   subscriptions, subscribers>>

\* One iteration of the loop: the next callback is invoked; it returns or
\* throws, or subscribes or unsubscribes callback m and returns.
Invoke(does, m) ==
    /\ emitting
    /\ cursor < Len(subscribers)
    /\ Len(delivered) < MaxDeliveries
    /\ LET callback == NextCallback(subscribers, cursor)
       IN /\ does \in {"return", "throw"} => m = callback
          /\ delivered' = Append(delivered, callback)
          /\ threw' = IF does = "throw" THEN threw \cup {callback} ELSE threw
          /\ subscribers' =
                CASE does = "subscribe" -> SetAdd(subscribers, m)
                  [] does = "unsubscribe" -> SetDelete(subscribers, m)
                  [] OTHER -> subscribers
          /\ removed' =
                IF does = "unsubscribe" /\ m \in Range(subscribers)
                THEN removed \cup {m} ELSE removed
          /\ cursor' = IF does = "unsubscribe"
                        THEN AfterDelete(subscribers, cursor, m)
                        ELSE cursor + 1
          /\ IF LoopGoesOn(does)
             THEN UNCHANGED <<emitting, emitResult>>
             ELSE emitting' = FALSE /\ emitResult' = "threw"
    /\ UNCHANGED <<storeVars, gitVars, lastCancel, suggestVars, runVars, runningAgentsMap, registryVars,
                   subscriptions, atPublish>>

\* The loop has passed every entry of the Set: emit returns.
EmitReturn ==
    /\ emitting
    /\ cursor >= Len(subscribers)
    /\ emitting' = FALSE
    /\ emitResult' = "returned"
    /\ UNCHANGED <<storeVars, gitVars, lastCancel, suggestVars, runVars, runningAgentsMap, registryVars,
                   subscriptions, subscribers, cursor,
                   delivered, atPublish, removed, threw>>

NextBus ==
    \/ \E cb \in Callbacks : Subscribe(cb)
    \/ \E cb \in Callbacks : Unsubscribe(cb)
    \/ Emit
    \/ \E does \in Behaviours, m \in Callbacks : Invoke(does, m)
    \/ EmitReturn

SpecBus == InitBus /\ [][NextBus]_vars

(***************************************************************************)
(* subscribe and the unsubscribe functions it returns, told apart: every   *)
(* subscribe call hands back its own function, and a function can be      *)
(* called again after its first call.                                      *)
(***************************************************************************)
\* Largest number of subscribe calls of one callback not yet undone.
MaxSubscriptions == 2

\* subscribe(callback)
SubscribeCall(callback) ==
    /\ subscriptions[callback].live < MaxSubscriptions
    /\ subscribers' = SetAdd(subscribers, callback)
    /\ subscriptions' = [subscriptions EXCEPT ![callback].live = @ + 1]
    /\ UNCHANGED <<emitting, cursor, delivered, atPublish, removed, threw, emitResult>>
    /\ UNCHANGED <<storeVars, gitVars, lastCancel, suggestVars, runVars,
                   runningAgentsMap, registryVars>>

\* An unsubscribe function of callback is called for the first time.
UnsubscribeCall(callback) ==
    /\ subscriptions[callback].live > 0
    /\ subscribers' = SetDelete(subscribers, callback)
    /\ subscriptions' = [subscriptions EXCEPT ![callback].live = @ - 1,
                                              ![callback].spent = TRUE]
    /\ UNCHANGED <<emitting, cursor, delivered, atPublish, removed, threw, emitResult>>
    /\ UNCHANGED <<storeVars, gitVars, lastCancel, suggestVars, runVars,
                   runningAgentsMap, registryVars>>

\* An unsubscribe function of callback that was called before is called
\* again.
UnsubscribeAgain(callback) ==
    /\ subscriptions[callback].spent
    /\ subscribers' = SetDelete(subscribers, callback)
    /\ UNCHANGED <<emitting, cursor, delivered, atPublish, removed, threw, emitResult,
                   subscriptions>>
    /\ UNCHANGED <<storeVars, gitVars, lastCancel, suggestVars, runVars,
                   runningAgentsMap, registryVars>>

NextSubscriptions ==
    \/ \E cb \in Callbacks : SubscribeCall(cb)
    \/ \E cb \in Callbacks : UnsubscribeCall(cb)
    \/ \E cb \in Callbacks : UnsubscribeAgain(cb)

SpecSubscriptions == InitBus /\ [][NextSubscriptions]_vars

(***************************************************************************)
(* The Feature Store on its own: FeatureLoader calls that overlap. update  *)
(* awaits between its read (get) and its write (fs.writeFile), so other    *)
(* calls run in between. The Gateway's status write is the update callback *)
(* handed to createFeatureToolsServer, a read-modify-write like update.    *)
(***************************************************************************)
OpKinds == {"update", "gateway", "delete"}

\* The updates a caller of POST /update supplies.
Partials == {[status |-> "verified"],
             [skipTests |-> TRUE],
             [status |-> "in_progress", skipTests |-> TRUE]}

\* The { status: finalStatus } the Gateway's callback applies.
GatewayPartials == {[status |-> "in_progress"], [status |-> "verified"]}

\* FeatureLoader.get: the parsed feature.json, null when there is no file.
get(featureId) == store[featureId]

\* Variant of the check in update that never finds the feature missing.
NotFoundNever(feat) == FALSE

\* if (!feature) throw new Error(`Feature ${featureId} not found`)
NotFound(feat) == feat = NoFeature

\* Variant of the write for one file shared by all features: the record is
\* stored under every key.
writeSharedFile(featureId, record) == [k \in FeatureIds |-> record]

\* fs.writeFile(featureJsonPath, JSON.stringify(updatedFeature))
writeFile(featureId, record) == [store EXCEPT ![featureId] = record]

InitStore ==
    /\ store \in {s \in [FeatureIds -> FeatureRecords \cup {NoFeature}] :
                    /\ s["feature-1"] = [id |-> "feature-1", status |-> "backlog",
                                         skipTests |-> FALSE]
                    /\ s["feature-2"] \in
                          {NoFeature, [id |-> "feature-2", status |-> "in_progress",
                                       skipTests |-> FALSE]}}
    /\ store0 = store
    /\ InitDisk
    /\ InitRest

\* A caller issues update(projectPath, featureId, updates), the Gateway
\* calls its update callback, or a caller issues delete(projectPath,
\* featureId).
StoreCall(o, k, featureId, updates) ==
    /\ ops[o].pc = "idle"
    /\ \A d \in Ops : d < o => ops[d].pc # "idle"
    /\ k = "update" => updates \in Partials
    /\ k = "gateway" => updates \in GatewayPartials
    /\ k = "delete" => updates = <<>>
    /\ ops' = [ops EXCEPT ![o] =
          [pc |-> IF k = "delete" THEN "rm" ELSE "get", kind |-> k,
           featureId |-> featureId, updates |-> updates, read |-> NoFeature,
           result |-> "none"]]
    /\ UNCHANGED <<runVars, runningAgentsMap, registryVars, busVars, store0,
                   agentOutput, gitVars, lastCancel, suggestVars>>

\* const feature = await this.get(projectPath, featureId); a missing feature
\* ends the call with "not found".
UpdateGet(o) ==
    /\ ops[o].pc = "get"
    /\ LET feat == get(ops[o].featureId)
       IN ops' = [ops EXCEPT ![o] =
             IF NotFound(feat)
             THEN [@ EXCEPT !.pc = "failed", !.result = "not_found"]
             ELSE [@ EXCEPT !.pc = "write", !.read = feat]]
    /\ UNCHANGED <<runVars, runningAgentsMap, registryVars, busVars, store0,
                   agentOutput, gitVars, lastCancel, suggestVars>>

\* { ...feature, ...updates } is written back and returned. fs.writeFile
\* fails when the feature's folder has been removed meanwhile.
UpdateWrite(o) ==
    /\ ops[o].pc = "write"
    /\ LET updatedFeature == Merge(ops[o].read, ops[o].updates)
       IN IF agentOutput[ops[o].featureId] \/ store[ops[o].featureId] # NoFeature
          THEN /\ store' = writeFile(ops[o].featureId, updatedFeature)
               /\ ops' = [ops EXCEPT ![o] =
                     [@ EXCEPT !.pc = "done", !.result = "ok",
                               !.read = updatedFeature]]
          ELSE /\ ops' = [ops EXCEPT ![o] =
                     [@ EXCEPT !.pc = "failed", !.result = "error"]]
               /\ UNCHANGED store
    /\ UNCHANGED <<pc, kind, feature, execution, pulled, transcript, relayed,
                   loopExit, outcome, lastTool, phases, resultEvent, lastWrite,
                   runningAgentsMap, registryVars, busVars, store0, agentOutput,
                   gitVars, lastCancel, suggestVars>>

\* fs.rm(featureDir, { recursive: true, force: true }): feature.json and
\* agent-output.md go with the folder; the call returns true.
Delete(o) ==
    /\ ops[o].pc = "rm"
    /\ store' = [store EXCEPT ![ops[o].featureId] = NoFeature]
    /\ agentOutput' = [agentOutput EXCEPT ![ops[o].featureId] = FALSE]
    /\ ops' = [ops EXCEPT ![o] = [@ EXCEPT !.pc = "done", !.result = "true"]]
    /\ UNCHANGED <<pc, kind, feature, execution, pulled, transcript, relayed,
                   loopExit, outcome, lastTool, phases, resultEvent, lastWrite,
                   runningAgentsMap, registryVars, busVars, store0, gitVars,
                   lastCancel, suggestVars>>

NextStore ==
    \/ \E o \in Ops, k \in OpKinds, f \in FeatureIds,
          u \in Partials \cup GatewayPartials \cup {<<>>} : StoreCall(o, k, f, u)
    \/ \E o \in Ops : UpdateGet(o)
    \/ \E o \in Ops : UpdateWrite(o)
    \/ \E o \in Ops : Delete(o)

SpecStore == InitStore /\ [][NextStore]_vars

(***************************************************************************)
(* The Feature Store with create, and with updates whose partial carries   *)
(* an id field (Partial<Feature> allows every field of Feature).           *)
(***************************************************************************)
IdPartials == {[id |-> "feature-1"], [id |-> "feature-2", status |-> "in_progress"]}

\* The feature data handed to create: with an id, or without one ("null").
FeatureData == [id : FeatureIds \cup {"null"}, status : {"backlog"},
                skipTests : {FALSE}]

\* FeatureLoader.create: the storage key is featureData.id, or a generated
\* id that no stored feature has; the record is featureData with its id
\* field set to that key, written to the key's feature.json.
create(featureId, featureData) ==
    writeFile(featureId, [featureData EXCEPT !.id = featureId])

Create(featureData) ==
    /\ \E featureId \in FeatureIds :
          /\ IF featureData.id # "null"
             THEN featureId = featureData.id
             ELSE store[featureId] = NoFeature /\ ~agentOutput[featureId]
          /\ store' = create(featureId, featureData)
    /\ UNCHANGED <<pc, kind, feature, execution, pulled, transcript, relayed,
                   loopExit, outcome, lastTool, phases, resultEvent, lastWrite,
                   runningAgentsMap, registryVars, busVars, storeVars, gitVars,
                   lastCancel, suggestVars>>

\* update(projectPath, featureId, updates) is called with a partial that
\* carries an id.
UpdateCallWithId(o, featureId, updates) ==
    /\ ops[o].pc = "idle"
    /\ \A d \in Ops : d < o => ops[d].pc # "idle"
    /\ updates \in IdPartials
    /\ ops' = [ops EXCEPT ![o] =
          [pc |-> "get", kind |-> "update", featureId |-> featureId,
           updates |-> updates, read |-> NoFeature, result |-> "none"]]
    /\ UNCHANGED <<runVars, runningAgentsMap, registryVars, busVars, store0,
                   agentOutput, gitVars, lastCancel, suggestVars>>

NextIds ==
    \/ \E featureData \in FeatureData : Create(featureData)
    \/ \E o \in Ops, f \in FeatureIds : StoreCall(o, "delete", f, <<>>)
    \/ \E o \in Ops, f \in FeatureIds, u \in IdPartials : UpdateCallWithId(o, f, u)
    \/ \E o \in Ops : UpdateGet(o)
    \/ \E o \in Ops : UpdateWrite(o)
    \/ \E o \in Ops : Delete(o)

SpecIds == InitStore /\ [][NextIds]_vars

(***************************************************************************)
(* POST /merge of the worktree routes: the git commands of one request,    *)
(* each of which may fail. There is one request per feature; requests for  *)
(* different features overlap.                                             *)
(***************************************************************************)
\* Variant of the cleanup's catch that passes the error on to the outer
\* catch of the route.
CleanupErrorSurfaced == "error"

\* try { worktree remove; branch -D } catch { /* non-fatal */ } and then
\* res.json({ success: true, ... })
AfterCleanupError == "success"

\* res.status(500).json({ success: false, error }) of the outer catch.
Fail(req) == [req EXCEPT !.pc = "done", !.response = "error"]

\* The request arrives; one without projectPath or featureId is answered
\* with 400.
MergeCall(f, squash, valid) ==
    /\ mergeReq[f].pc = "idle"
    /\ mergeReq' = [mergeReq EXCEPT ![f] =
          IF valid
          THEN [pc |-> "revparse", squash |-> squash, integrated |-> FALSE,
                response |-> "none"]
          ELSE [pc |-> "done", squash |-> squash, integrated |-> FALSE,
                response |-> "error"]]
    /\ UNCHANGED <<runVars, runningAgentsMap, registryVars, busVars, storeVars,
                   worktree, branch, merged, lastCancel, suggestVars>>

\* git rev-parse --abbrev-ref HEAD
RevParse(f, ok) ==
    /\ mergeReq[f].pc = "revparse"
    /\ mergeReq' = [mergeReq EXCEPT ![f] =
          IF ok THEN [@ EXCEPT !.pc = "merge"] ELSE Fail(@)]
    /\ UNCHANGED <<runVars, runningAgentsMap, registryVars, busVars, storeVars,
                   worktree, branch, merged, lastCancel, suggestVars>>

\* git merge [--squash] feature/{featureId}: fails when the branch does not
\* exist or does not merge. A squash merge is not committed yet.
MergeCmd(f, ok) ==
    /\ mergeReq[f].pc = "merge"
    /\ ok => branch[f]
    /\ mergeReq' = [mergeReq EXCEPT ![f] =
          IF ~ok THEN Fail(@)
          ELSE IF @.squash THEN [@ EXCEPT !.pc = "commit"]
          ELSE [@ EXCEPT !.pc = "removeWorktree", !.integrated = TRUE]]
    /\ merged' = [merged EXCEPT ![f] = @ \/ (ok /\ ~mergeReq[f].squash)]
    /\ UNCHANGED <<runVars, runningAgentsMap, registryVars, busVars, storeVars,
                   worktree, branch, lastCancel, suggestVars>>

\* git commit -m ... after a squash merge.
Commit(f, ok) ==
    /\ mergeReq[f].pc = "commit"
    /\ mergeReq' = [mergeReq EXCEPT ![f] =
          IF ok THEN [@ EXCEPT !.pc = "removeWorktree", !.integrated = TRUE]
          ELSE Fail(@)]
    /\ merged' = [merged EXCEPT ![f] = @ \/ ok]
    /\ UNCHANGED <<runVars, runningAgentsMap, registryVars, busVars, storeVars,
                   worktree, branch, lastCancel, suggestVars>>

\* git worktree remove --force: fails when there is no such worktree; a
\* failure skips the branch deletion and the request is answered.
RemoveWorktree(f, ok) ==
    /\ mergeReq[f].pc = "removeWorktree"
    /\ ok => worktree[f]
    /\ worktree' = [worktree EXCEPT ![f] = @ /\ ~ok]
    /\ mergeReq' = [mergeReq EXCEPT ![f] =
          IF ok THEN [@ EXCEPT !.pc = "deleteBranch"]
          ELSE [@ EXCEPT !.pc = "done", !.response = AfterCleanupError]]
    /\ UNCHANGED <<runVars, runningAgentsMap, registryVars, busVars, storeVars,
                   branch, merged, lastCancel, suggestVars>>

\* git branch -D feature/{featureId}, then the answer.
DeleteBranch(f, ok) ==
    /\ mergeReq[f].pc = "deleteBranch"
    /\ ok => branch[f]
    /\ branch' = [branch EXCEPT ![f] = @ /\ ~ok]
    /\ mergeReq' = [mergeReq EXCEPT ![f] =
          [@ EXCEPT !.pc = "done",
                    !.response = IF ok THEN "success" ELSE AfterCleanupError]]
    /\ UNCHANGED <<runVars, runningAgentsMap, registryVars, busVars, storeVars,
                   worktree, merged, lastCancel, suggestVars>>

NextGit ==
    \/ \E f \in FeatureIds, squash \in BOOLEAN, valid \in BOOLEAN :
          MergeCall(f, squash, valid)
    \/ \E f \in FeatureIds, ok \in BOOLEAN : RevParse(f, ok)
    \/ \E f \in FeatureIds, ok \in BOOLEAN : MergeCmd(f, ok)
    \/ \E f \in FeatureIds, ok \in BOOLEAN : Commit(f, ok)
    \/ \E f \in FeatureIds, ok \in BOOLEAN : RemoveWorktree(f, ok)
    \/ \E f \in FeatureIds, ok \in BOOLEAN : DeleteBranch(f, ok)

SpecGit == InitStore /\ [][NextGit]_vars

(***************************************************************************)
(* Runs with cancel(featureId) called at any time: for a feature that has  *)
(* no run, whose run has returned, or whose run was cancelled before.      *)
(***************************************************************************)
\* What a cancel(f) call finds: no handle, the handle of a run that has
\* returned, a handle that is inactive already, or an active one.
Found(f) ==
    IF HoldersOf(f) = {} THEN "none"
    ELSE IF \A c \in HoldersOf(f) : pc[c] = "exit" THEN "finished"
    ELSE IF \A c \in HoldersOf(f) : ~isActive(c) THEN "cancelled"
    ELSE "active"

CancelCall(f) ==
    /\ lastCancel' = Found(f)
    /\ execution' = [c \in Calls |->
          IF c \in HoldersOf(f) THEN Cancelled(execution[c]) ELSE execution[c]]
    /\ UNCHANGED <<store, runningAgentsMap, pc, kind, feature, pulled, transcript,
                   relayed, loopExit, outcome, lastTool, phases, resultEvent,
                   lastWrite>>
    /\ UNCHANGED <<registryVars, busVars, storeVars, gitVars, suggestVars>>

NextCancel ==
    \/ \E c \in Calls, k \in Kinds, f \in FeatureIds : RunStart(c, k, f)
    \/ \E c \in Calls : Planning(c)
    \/ \E c \in Calls : Action(c)
    \/ \E c \in Calls, u \in UnitKinds : PullUnit(c, u)
    \/ \E c \in Calls : StreamEnd(c)
    \/ \E c \in Calls : Verify(c)
    \/ \E c \in Calls : Release(c)
    \/ \E c \in Calls, err \in {"AbortError", "Error"} : Raise(c, err)
    \/ \E f \in FeatureIds : CancelCall(f)

SpecCancel == InitRegistry /\ [][NextCancel]_vars

(***************************************************************************)
(* Runs in a project that may store a second feature, so that the          *)
(* featureId the agent hands to the tool can name a stored feature other   *)
(* than its own, or none; the tool's lookup and update can fail.           *)
(***************************************************************************)
InitGateway == InitStore

\* The tool call of run c when loadFeatures throws (the list cannot be
\* read) or the update callback throws (the record cannot be written):
\* nothing is stored and the catch block answers.
UpdateFeatureStatusToolFails(c, featureId, status, fault) ==
    /\ pc[c] = "stream"
    /\ fault = "update" => FindFeature(loadFeatures, featureId) # NoFeature
    /\ lastTool' = [by |-> c, featureId |-> featureId, final |-> "null",
                    text |-> ToolCatch(fault)]
    /\ UNCHANGED <<store, lastWrite>>
    /\ UNCHANGED <<runningAgentsMap, pc, kind, feature, execution, pulled,
                   transcript, relayed, loopExit, outcome, phases, resultEvent>>
    /\ UNCHANGED <<registryVars, busVars, storeVars, gitVars, lastCancel, suggestVars>>

\* Runs of feature-1 whose agent does nothing but call the tool; feature-2
\* is never run.
NextGateway ==
    \/ \E c \in Calls, k \in Kinds : RunStart(c, k, "feature-1")
    \/ \E c \in Calls : Planning(c)
    \/ \E c \in Calls : Action(c)
    \/ \E c \in Calls : StreamEnd(c)
    \/ \E c \in Calls : Verify(c)
    \/ \E c \in Calls : Release(c)
    \/ \E c \in Calls, f \in FeatureIds, s \in RequestableStatuses :
          UpdateFeatureStatusTool(c, f, s)
    \/ \E c \in Calls, f \in FeatureIds, s \in RequestableStatuses,
          fault \in {"load", "update"} : UpdateFeatureStatusToolFails(c, f, s, fault)

SpecGateway == InitGateway /\ [][NextGateway]_vars

(***************************************************************************)
(* Suggestions: createSuggestionsRoutes and generateSuggestions of         *)
(* suggestions.ts. A route handler runs to its end without interruption    *)
(* (it awaits nothing); a generation runs in the background, and the       *)
(* .catch and .finally handlers chained on it run as microtasks before any *)
(* further request is served.                                              *)
(***************************************************************************)
\* The generation's stream has not ended, or its handlers have not all run.
InFlight(g) == generation[g].pc \in {"stream", "fulfilled", "rejected", "caught"}

\* A promise reaction of some generation is queued.
MicrotaskPending ==
    \E g \in Generations : generation[g].pc \in {"fulfilled", "rejected", "caught"}

\* Variant of the .catch handler that emits nothing.
CatchSilent(g) == generation[g].error

\* .catch((error) => events.emit(... type: "suggestions_error" ...))
CatchEmits(g) == generation[g].error + 1

\* POST /generate
Generate(valid) ==
    /\ ~MicrotaskPending
    /\ IF ~valid \/ isRunning
       THEN UNCHANGED suggestVars
       ELSE \E g \in Generations :
              /\ generation[g].pc = "idle"
              /\ \A h \in Generations : h < g => generation[h].pc # "idle"
              /\ isRunning' = TRUE
              /\ currentAbortController' = g
              /\ generation' = [generation EXCEPT ![g].pc = "stream"]
    /\ UNCHANGED <<runVars, runningAgentsMap, registryVars, busVars, storeVars,
                   gitVars, lastCancel>>

\* POST /stop
Stop ==
    /\ ~MicrotaskPending
    /\ generation' = IF currentAbortController # 0
                     THEN [generation EXCEPT ![currentAbortController].aborted = TRUE]
                     ELSE generation
    /\ isRunning' = FALSE
    /\ UNCHANGED currentAbortController
    /\ UNCHANGED <<runVars, runningAgentsMap, registryVars, busVars, storeVars,
                   gitVars, lastCancel>>

\* The for-await loop of generateSuggestions ends: the stream is exhausted
\* and the parse step emits suggestions_complete (the parsed list or the
\* fallback), or the stream throws and the call rejects. An aborted stream
\* may end either way.
StreamEnds(g, how) ==
    /\ ~MicrotaskPending
    /\ generation[g].pc = "stream"
    /\ generation' = [generation EXCEPT
          ![g].ended = how,
          ![g].complete = IF how = "ok" THEN @ + 1 ELSE @,
          ![g].pc = IF how = "ok" THEN "fulfilled" ELSE "rejected"]
    /\ UNCHANGED <<isRunning, currentAbortController>>
    /\ UNCHANGED <<runVars, runningAgentsMap, registryVars, busVars, storeVars,
                   gitVars, lastCancel>>

CatchHandler(g) ==
    /\ generation[g].pc = "rejected"
    /\ generation' = [generation EXCEPT ![g].error = CatchEmits(g),
                                        ![g].pc = "caught"]
    /\ UNCHANGED <<isRunning, currentAbortController>>
    /\ UNCHANGED <<runVars, runningAgentsMap, registryVars, busVars, storeVars,
                   gitVars, lastCancel>>

\* .finally(() => { isRunning = false; currentAbortController = null; })
FinallyHandler(g) ==
    /\ generation[g].pc \in {"fulfilled", "caught"}
    /\ isRunning' = FALSE
    /\ currentAbortController' = 0
    /\ generation' = [generation EXCEPT ![g].pc = "settled"]
    /\ UNCHANGED <<runVars, runningAgentsMap, registryVars, busVars, storeVars,
                   gitVars, lastCancel>>

NextSuggestions ==
    \/ \E valid \in BOOLEAN : Generate(valid)
    \/ Stop
    \/ \E g \in Generations, how \in {"ok", "throw"} : StreamEnds(g, how)
    \/ \E g \in Generations : CatchHandler(g)
    \/ \E g \in Generations : FinallyHandler(g)

SpecSuggestions == InitRegistry /\ [][NextSuggestions]_vars

\* Queued promise reactions are always run.
SpecSuggestionsFair ==
    /\ SpecSuggestions
    /\ \A g \in Generations :
          WF_vars(CatchHandler(g)) /\ WF_vars(FinallyHandler(g))

(***************************************************************************)
(* Properties.                                                             *)
(***************************************************************************)

\* The status the agent asked for in the tool call lastTool answers.
Requested(t) == IF t.text = "converted" THEN "verified" ELSE t.final

\* C1: a Gateway call setStatus(f, verified) on a stored feature whose
\* skipTests is true stores waiting_approval and reports the conversion, and
\* while the answer of a successful Gateway call on such a feature is the
\* latest one, its stored status is not verified.
C1_SkipTestsNeverVerified ==
    /\ [][\A c \in Calls, f \in FeatureIds :
            (/\ UpdateFeatureStatusTool(c, f, "verified")
             /\ store[f] # NoFeature
             /\ store[f].skipTests)
            => (/\ store'[f].status = "waiting_approval"
                /\ lastTool'.text = "converted")]_vars
    /\ [](\A f \in FeatureIds :
            (/\ lastTool.featureId = f
             /\ lastTool.text \in {"direct", "converted"}
             /\ store[f].skipTests)
            => store[f].status # "verified")

C1_Witness ==
    /\ lastTool.text = "converted"
    /\ lastTool.featureId = "feature-1"
    /\ store["feature-1"].skipTests
    /\ store["feature-1"].status = "waiting_approval"

C3_CancelledRunAborts ==
    outcome.via \in {"break", "abort"}
    => (/\ outcome.status = "returned"
        /\ outcome.passes = FALSE
        /\ outcome.message = "aborted")

\* C4: when the stream of run or resume is exhausted, passed is computed from
\* the record stored at that moment: status = verified, or skipTests and
\* status = waiting_approval.
C4_PassesFromStore ==
    [][\A c \in Calls :
         (/\ Verify(c)
          /\ kind[c] # "commitOnly"
          /\ loopExit[c] = "exhausted")
         => LET stored == store[feature[c].id]
            IN outcome'.passes =
                 (\/ stored.status = "verified"
                  \/ (stored.skipTests /\ stored.status = "waiting_approval"))]_vars

C4_Witness ==
    \E c \in Calls :
        /\ pc[c] = "exit"
        /\ kind[c] # "commitOnly"
        /\ outcome.call = c
        /\ outcome.via = "exhausted"
        /\ outcome.passes = TRUE
        /\ feature[c].status = "backlog"
        /\ store[feature[c].id].status = "verified"

\* C5: a Gateway call setStatus(f, verified) on a stored feature whose
\* skipTests is false stores verified and reports a direct write.
C5_VerifiedStoredDirectly ==
    [][\A c \in Calls, f \in FeatureIds :
         (/\ UpdateFeatureStatusTool(c, f, "verified")
          /\ store[f] # NoFeature
          /\ ~store[f].skipTests)
         => (/\ store'[f].status = "verified"
             /\ lastTool'.text = "direct"
             /\ lastTool'.final = "verified")]_vars

C5_Witness ==
    /\ lastTool.text = "direct"
    /\ lastTool.final = "verified"
    /\ lastTool.featureId = "feature-1"
    /\ ~store["feature-1"].skipTests
    /\ store["feature-1"].status = "verified"

\* C6: when the last Gateway call of the run's agent asked for verified on
\* the run's feature and the stream of run or resume is then exhausted
\* without a cancellation, the run returns passed = true and the stored
\* status is waiting_approval if skipTests is true and verified if not.
C6_VerifiedRunPasses ==
    [][\A c \in Calls :
         (/\ Verify(c)
          /\ kind[c] # "commitOnly"
          /\ loopExit[c] = "exhausted"
          /\ isActive(c)
          /\ lastTool.by = c
          /\ lastTool.featureId = feature[c].id
          /\ lastTool.text \in {"direct", "converted"}
          /\ Requested(lastTool) = "verified")
         => (/\ outcome'.status = "returned"
             /\ outcome'.passes = TRUE
             /\ store'[feature[c].id].status =
                  IF store[feature[c].id].skipTests
                  THEN "waiting_approval" ELSE "verified")]_vars

C6_Witness ==
    \E c \in Calls :
        /\ pc[c] = "exit"
        /\ outcome.call = c
        /\ outcome.via = "exhausted"
        /\ outcome.passes = TRUE
        /\ isActive(c)
        /\ lastTool.by = c
        /\ lastTool.text = "converted"
        /\ store[feature[c].id].skipTests
        /\ store[feature[c].id].status = "waiting_approval"

\* C7: once a run has left its executor method, on whichever path, the
\* query and AbortController references of its handle are null; and a
\* feature has a Running-Set entry exactly while a run holds its handle.
C7_ReleasedOnEveryExit ==
    /\ \A c \in Calls :
          pc[c] \in {"exit", "done"} =>
             /\ execution[c].query = "null"
             /\ execution[c].abortController = "null"
    /\ \A f \in FeatureIds : isAgentRunning(f) <=> HoldersOf(f) # {}
    /\ \A c \in Calls : pc[c] = "done" => ~isActive(c)

C7_Witness ==
    /\ pc[1] = "done"
    /\ outcome.call = 1
    /\ outcome.status = "threw"
    /\ ~isAgentRunning("feature-1")
    /\ execution[1] = NoExecution

\* C8: an AbortError raised by the agent runtime is caught: the call
\* returns passed = false with the aborted summary and does not throw.
C8_AbortIsCaught ==
    [][\A c \in Calls :
         Raise(c, "AbortError")
         => outcome' = [call |-> c, status |-> "returned", passes |-> FALSE,
                        message |-> "aborted", via |-> "abort"]]_vars

C8_Witness ==
    /\ outcome.status = "returned"
    /\ outcome.via = "abort"
    /\ outcome.message = "aborted"
    /\ outcome.passes = FALSE
    /\ pc[outcome.call] = "exit"

\* C9: an error other than an abort is thrown again to the caller with the
\* handle's references cleared and the stored features untouched, the
\* caller's release removes the Running-Set entry, and nothing but a
\* Gateway call changes the store.
C9_ErrorRethrownStoreUntouched ==
    /\ [][\A c \in Calls :
            Raise(c, "Error")
            => (/\ outcome'.status = "threw"
                /\ outcome'.call = c
                /\ execution'[c].query = "null"
                /\ execution'[c].abortController = "null"
                /\ store' = store)]_vars
    /\ [][\A c \in Calls :
            (Release(c) /\ outcome.call = c /\ outcome.status = "threw")
            => (/\ runningAgentsMap'[feature[c].id] = NoEntry
                /\ store' = store)]_vars
    /\ [][store' # store =>
            \E c \in Calls, f \in FeatureIds, s \in RequestableStatuses :
                UpdateFeatureStatusTool(c, f, s)]_vars

C9_Witness ==
    \E c \in Calls :
        /\ pc[c] = "exit"
        /\ outcome.call = c
        /\ outcome.status = "threw"
        /\ lastTool.by = c
        /\ lastTool.text = "direct"
        /\ lastTool.final = "in_progress"
        /\ feature[c].status = "backlog"
        /\ store[feature[c].id].status = "in_progress"

\* C10: a unit that arrives while the handle is inactive is not written to
\* the transcript and not relayed, and the loop is left on it, so that no
\* later unit is received.
C10_InactiveLoopStops ==
    [][\A c \in Calls :
         (pc[c] = "stream" /\ ~isActive(c))
         => (/\ transcript'[c] = transcript[c]
             /\ relayed'[c] = relayed[c]
             /\ pulled'[c] <= pulled[c] + 1
             /\ pulled'[c] # pulled[c] => pc'[c] # "stream")]_vars

C10_Witness ==
    \E c \in Calls :
        /\ pc[c] = "verify"
        /\ loopExit[c] = "break"
        /\ pulled[c] = 2
        /\ transcript[c] = <<1>>
        /\ relayed[c] = <<1>>

\* s is an initial part of t.
IsPrefix(s, t) ==
    /\ Len(s) <= Len(t)
    /\ \A i \in 1..Len(s) : s[i] = t[i]

\* C11: in every run and every resume the phase events sent so far are an
\* initial part of planning, action, verification, and they are all three
\* once the stream was exhausted and the method has returned; a commitOnly
\* invocation never sends the verification phase.
C11_PhasesInOrder ==
    \A c \in Calls :
        /\ kind[c] \in {"run", "resume"} =>
              /\ IsPrefix(phases[c], PhaseOrder)
              /\ (/\ pc[c] = "exit"
                  /\ loopExit[c] = "exhausted"
                  /\ outcome.call = c
                  /\ outcome.status = "returned") => phases[c] = PhaseOrder
        /\ kind[c] = "commitOnly" =>
              \A i \in 1..Len(phases[c]) : phases[c][i] # "verification"

\* The status lifecycle of spec.md section 3.
AllowedTransition(from, to) ==
    \/ from = "backlog" /\ to = "in_progress"
    \/ from = "in_progress" /\ to \in {"verified", "waiting_approval", "error"}

\* C12: a stored feature's status changes only along backlog -> in_progress
\* -> {verified, waiting_approval, error}, and a feature with skipTests =
\* true never changes to verified.
C12_StatusLifecycle ==
    [][\A f \in FeatureIds :
          (/\ store[f] # NoFeature
           /\ store'[f] # NoFeature
           /\ store'[f].status # store[f].status)
          => /\ AllowedTransition(store[f].status, store'[f].status)
             /\ store[f].skipTests => store'[f].status # "verified"]_vars

\* C13: when a run leaves its executor method, the stored status of its
\* feature is the (possibly rewritten) status of the last
\* UpdateFeatureStatus write made for that feature during the run, or the
\* status the feature had at run start when no such write was made; no step
\* of the executor method itself changes the Feature Store.
C13_StatusIsLastGatewayWrite ==
    /\ [](\A c \in Calls :
            pc[c] = "exit" =>
                store[feature[c].id].status =
                    IF lastWrite[c] = "none" THEN feature[c].status
                    ELSE lastWrite[c])
    /\ [][\A c \in Calls :
            (\/ Planning(c)
             \/ Action(c)
             \/ \E u \in UnitKinds : PullUnit(c, u)
             \/ StreamEnd(c)
             \/ Verify(c)
             \/ \E err \in {"AbortError", "Error"} : Raise(c, err))
            => store' = store]_vars

\* A run has returned after its agent's verified request was rewritten and
\* written: the store holds waiting_approval, not the backlog it started
\* with.
C13_Witness ==
    \E c \in Calls :
        /\ pc[c] = "exit"
        /\ feature[c].status = "backlog"
        /\ lastWrite[c] = "waiting_approval"
        /\ store[feature[c].id].status = "waiting_approval"

\* Which of the four terminal outcomes of spec.md section 7 the invocation
\* that has just left its executor method ended in; "other" when none.
TerminalOutcome(c) ==
    IF outcome.status = "threw" THEN "error"
    ELSE IF outcome.message = "aborted" THEN "aborted"
    ELSE IF store[feature[c].id].status \in {"verified", "waiting_approval"}
         THEN store[feature[c].id].status
    ELSE "other"

\* C14: an invocation that has left its executor method has sent one
\* closing event to the renderer, and it ended in one of verified,
\* waiting_approval, aborted, error.
C14_OneTerminalEvent ==
    \A c \in Calls :
        (pc[c] = "exit" /\ outcome.call = c) =>
            /\ resultEvent[c] # "none"
            /\ TerminalOutcome(c) # "other"

\* C15: an UpdateFeatureStatus call that names a featureId with no stored
\* feature is answered with the failure text and writes nothing: every
\* stored feature is as before.
C15_AbsentFeatureNotWritten ==
    [][\A c \in Calls, f \in FeatureIds, s \in RequestableStatuses :
          (UpdateFeatureStatusTool(c, f, s) /\ store[f] = NoFeature)
          => /\ store' = store
             /\ lastTool'.text = "failed"
             /\ lastTool'.featureId = f]_vars

\* The agent of a run on feature-1 has called the tool for feature-2, which
\* is not stored, and got the failure text back.
C15_Witness ==
    /\ lastTool.text = "failed"
    /\ lastTool.featureId = "feature-2"
    /\ store["feature-2"] = NoFeature
    /\ store["feature-1"] # NoFeature
    /\ pc[lastTool.by] = "stream"

\* C16: the status an UpdateFeatureStatus call stores is never error, and it
\* is waiting_approval only when the call asked for verified and the stored
\* feature's skipTests was true when the call was made.
C16_GatewayWritesOnlyRequestable ==
    [][\A c \in Calls, f \in FeatureIds, s \in RequestableStatuses :
          (UpdateFeatureStatusTool(c, f, s) /\ store[f] # NoFeature)
          => /\ store'[f].status \in {"backlog", "in_progress", "verified",
                                      "waiting_approval"}
             /\ store'[f].status = "waiting_approval"
                   => s = "verified" /\ store[f].skipTests
             /\ lastTool'.final = store'[f].status]_vars

\* A run on a skipTests feature that was in status error at run start: its
\* agent asked for verified and the Gateway stored waiting_approval.
C16_Witness ==
    \E c \in Calls :
        /\ pc[c] = "stream"
        /\ feature[c].status = "error"
        /\ lastTool.by = c
        /\ lastTool.text = "converted"
        /\ store[feature[c].id].skipTests
        /\ store[feature[c].id].status = "waiting_approval"

\* C17: unregisterRunningAgent can be called for any feature id in any
\* registry state; after the call the id is not running, every other id's
\* entry is as before, and a call for an id that is not running changes
\* nothing.
C17_UnregisterIdempotent ==
    /\ [](\A f \in FeatureIds :
            unregisterCalls[f] < MaxUnregisters
                => ENABLED UnregisterRunningAgent(f))
    /\ [][\A f \in FeatureIds :
            UnregisterRunningAgent(f)
            => /\ runningAgentsMap'[f] = NoEntry
               /\ \A g \in FeatureIds \ {f} :
                     runningAgentsMap'[g] = runningAgentsMap[g]
               /\ ~isAgentRunning(f) => runningAgentsMap' = runningAgentsMap]_vars

\* unregisterRunningAgent was called twice for feature-1 and never for
\* feature-2: feature-1 is not running and feature-2 still is.
C17_Witness ==
    /\ unregisterCalls["feature-1"] = 2
    /\ unregisterCalls["feature-2"] = 0
    /\ ~isAgentRunning("feature-1")
    /\ isAgentRunning("feature-2")

\* Number of times callback x was invoked by the emit call.
Invocations(x) == Cardinality({i \in 1..Len(delivered) : delivered[i] = x})

\* The callbacks that were subscribed when emit was called and have not been
\* unsubscribed since.
Stable == Range(atPublish) \ removed

\* The callbacks of a sequence that are Stable, in the sequence's order.
StablePart(s) == LET InStable(x) == x \in Stable IN SelectSeq(s, InStable)

\* C18: a callback that throws during an emit does not end it: emit never
\* throws, the throwing invocation leaves the subscriber set as it was and
\* the loop running, and when emit has returned every callback that stayed
\* subscribed through the call, before or after the throwing one in the
\* Set, was invoked exactly once.
C18_ThrowingSubscriberIsolated ==
    /\ [](emitResult # "threw")
    /\ []((emitResult = "returned" /\ threw # {})
            => \A cb \in Stable : Invocations(cb) = 1)
    /\ [][\A cb \in Callbacks :
            Invoke("throw", cb) => subscribers' = subscribers /\ emitting']_vars

\* Three callbacks were subscribed, the second one invoked threw, and all
\* three were invoked once in an emit that returned with the Set unchanged.
C18_Witness ==
    /\ emitResult = "returned"
    /\ Len(atPublish) = 3
    /\ subscribers = atPublish
    /\ delivered = atPublish
    /\ threw = {atPublish[2]}

\* C19: every callback an emit call invokes was subscribed before emit was
\* called.
C19_NoDeliveryToLateSubscriber ==
    \A i \in 1..Len(delivered) : delivered[i] \in Range(atPublish)

\* C20 (as stated): when emit has returned, the callbacks it invoked are
\* exactly the callbacks subscribed when it was called, in registration
\* order, each once.
C20_AllInRegistrationOrderOnce ==
    emitResult = "returned" => delivered = atPublish

\* C20: the callbacks that were subscribed when emit was called and are not
\* unsubscribed during the call are invoked in registration order, each
\* exactly once: during the call their invocations so far are an initial
\* part of their registration order, and all of it when emit has returned.
C20_StableInRegistrationOrder ==
    /\ (emitting \/ emitResult = "returned")
          => IsPrefix(StablePart(delivered), StablePart(atPublish))
    /\ emitResult = "returned" => StablePart(delivered) = StablePart(atPublish)

\* Of three subscribed callbacks one was unsubscribed by another callback
\* before its turn: the emit returned having invoked the other two in
\* registration order and not the removed one.
C20_Witness ==
    /\ emitResult = "returned"
    /\ Len(atPublish) = 3
    /\ removed = {atPublish[2]}
    /\ delivered = <<atPublish[1], atPublish[3]>>

\* The calls in ops that have changed the Feature Store.
Acted == {o \in Ops : ops[o].pc = "done"}

\* The update and Gateway-write calls that have written.
Written == {o \in Acted : ops[o].kind \in {"update", "gateway"}}

\* C21: when an update of feature A and an update of feature B, A # B, have
\* both written, whatever the order of their read and write steps, each
\* record is its record from before the calls with the call's fields
\* overwritten: both updates took effect in full and nothing else changed.
C21_DifferentFeaturesIndependent ==
    \A o1 \in Written, o2 \in Written :
        (/\ ops[o1].featureId # ops[o2].featureId
         /\ Acted = {o1, o2})
        => \A o \in {o1, o2} :
              store[ops[o].featureId] =
                  Merge(store0[ops[o].featureId], ops[o].updates)

\* An update of feature-1 and a Gateway write to feature-2 have both
\* written: feature-1 has the new skipTests and its old status, feature-2
\* the new status.
C21_Witness ==
    \E o1 \in Written, o2 \in Written :
        /\ ops[o1].kind = "update" /\ ops[o1].featureId = "feature-1"
        /\ ops[o1].updates = [skipTests |-> TRUE]
        /\ ops[o2].kind = "gateway" /\ ops[o2].featureId = "feature-2"
        /\ ops[o2].updates = [status |-> "verified"]
        /\ store["feature-1"] = [id |-> "feature-1", status |-> "backlog",
                                 skipTests |-> TRUE]
        /\ store["feature-2"].status = "verified"

\* C22: when an update of feature f through the update route and a Gateway
\* status write to f have both written and they supplied different fields,
\* the stored record has the fields supplied by both.
C22_SameFeatureNoLostWrite ==
    \A o1 \in Written, o2 \in Written :
        (/\ ops[o1].kind = "update"
         /\ ops[o2].kind = "gateway"
         /\ ops[o1].featureId = ops[o2].featureId
         /\ DOMAIN ops[o1].updates \cap DOMAIN ops[o2].updates = {}
         /\ Acted = {o1, o2})
        => \A o \in {o1, o2} : \A k \in DOMAIN ops[o].updates :
              store[ops[o].featureId][k] = ops[o].updates[k]

\* C23: the write step of an update whose read is still the stored record
\* stores and returns a record in which every supplied field has the
\* supplied value and every other field the value it had; no other
\* feature's record changes.
C23_UpdateMerges ==
    [][\A o \in Ops :
          (/\ UpdateWrite(o)
           /\ ops[o].kind = "update"
           /\ ops[o].read = store[ops[o].featureId])
          => LET f == ops[o].featureId
                 u == ops[o].updates
             IN /\ \A k \in DOMAIN store[f] :
                      store'[f][k] = IF k \in DOMAIN u THEN u[k] ELSE store[f][k]
                /\ DOMAIN store'[f] = DOMAIN store[f]
                /\ ops'[o].read = store'[f]
                /\ ops'[o].result = "ok"
                /\ \A g \in FeatureIds \ {f} : store'[g] = store[g]]_vars

\* update(feature-1, {skipTests: true}) has returned: status is as before,
\* skipTests is the supplied value, and the returned record is the stored
\* one.
C23_Witness ==
    \E o \in Written :
        /\ ops[o].kind = "update"
        /\ ops[o].featureId = "feature-1"
        /\ ops[o].updates = [skipTests |-> TRUE]
        /\ Acted = {o}
        /\ store["feature-1"].status = store0["feature-1"].status
        /\ store["feature-1"].skipTests
        /\ ~store0["feature-1"].skipTests
        /\ ops[o].read = store["feature-1"]

\* C24: an update of a feature id that has no stored record ends with "not
\* found" and writes nothing: no record is created and the store is as
\* before. get of such an id is null.
C24_UpdateAbsentNotFound ==
    /\ [][\A o \in Ops :
            (UpdateGet(o) /\ store[ops[o].featureId] = NoFeature)
            => /\ ops'[o].pc = "failed"
               /\ ops'[o].result = "not_found"
               /\ store' = store]_vars
    /\ [](\A o \in Ops :
            ops[o].result = "not_found" => ~ENABLED UpdateWrite(o))
    /\ [](\A f \in FeatureIds :
            (f \notin {feat.id : feat \in loadFeatures}) => get(f) = NoFeature)

\* update(feature-2, ...) was called while feature-2 was never stored: the
\* call has failed with "not found" and feature-2 is still absent.
C24_Witness ==
    \E o \in Ops :
        /\ ops[o].kind = "update"
        /\ ops[o].featureId = "feature-2"
        /\ ops[o].result = "not_found"
        /\ store0["feature-2"] = NoFeature
        /\ get("feature-2") = NoFeature
        /\ store = store0

\* C29: once delete(projectPath, id) has returned and nothing has created
\* the feature again, get(id) is null, the list does not hold the feature,
\* and its agent output and its worktree directory are gone.
C29_DeleteRemovesEverything ==
    \A o \in Acted :
        ops[o].kind = "delete"
        => LET f == ops[o].featureId
           IN /\ get(f) = NoFeature
              /\ f \notin {feat.id : feat \in loadFeatures}
              /\ ~agentOutput[f]
              /\ ~worktree[f]

\* C28: an answered merge request reports success exactly when its merge,
\* and for a squash merge its commit, succeeded: a failed merge or commit is
\* answered with an error, and a failed worktree removal or branch deletion
\* after a successful integration is still answered with success.
C28_MergeSuccessIffIntegrated ==
    /\ [](\A f \in FeatureIds :
            mergeReq[f].pc = "done" =>
                (mergeReq[f].response = "success" <=> mergeReq[f].integrated))
    /\ [][\A f \in FeatureIds :
            /\ (MergeCmd(f, FALSE) \/ Commit(f, FALSE))
                  => mergeReq'[f].response = "error"
            /\ (RemoveWorktree(f, FALSE) \/ DeleteBranch(f, FALSE))
                  => /\ mergeReq'[f].response = "success"
                     /\ mergeReq[f].integrated]_vars

\* A squash merge of feature-1 was merged and committed, the removal of its
\* worktree failed, and the request was answered with success.
C28_Witness ==
    /\ mergeReq["feature-1"].pc = "done"
    /\ mergeReq["feature-1"].squash
    /\ mergeReq["feature-1"].response = "success"
    /\ merged["feature-1"]
    /\ worktree["feature-1"]
    /\ branch["feature-1"]

\* C27: within one run the units written to the transcript are in the
\* order in which they were received, each once, and every text or tool
\* unit received while the handle is active is written and relayed; the
\* events relayed are the same units in the same order.
C27_TranscriptInStreamOrder ==
    /\ [](\A c \in Calls :
            /\ relayed[c] = transcript[c]
            /\ \A i \in 1..Len(transcript[c]) :
                  /\ transcript[c][i] \in 1..pulled[c]
                  /\ \A j \in 1..Len(transcript[c]) :
                        i < j => transcript[c][i] < transcript[c][j])
    /\ [][\A c \in Calls, u \in {"text", "tool_use"} :
            (PullUnit(c, u) /\ isActive(c))
            => /\ transcript'[c] = Append(transcript[c], pulled[c] + 1)
               /\ relayed'[c] = Append(relayed[c], pulled[c] + 1)]_vars

\* A run has received two units, both text or tool units: both are in the
\* transcript and were relayed, first unit first.
C27_Witness ==
    \E c \in Calls :
        /\ kind[c] = "run"
        /\ pulled[c] = 2
        /\ transcript[c] = <<1, 2>>
        /\ relayed[c] = <<1, 2>>

\* C30: the confirmation of a successful UpdateFeatureStatus call names the
\* status that was stored, and it says "converted" exactly when the stored
\* status differs from the requested one and is the direct text otherwise.
C30_ConfirmationTellsStoredStatus ==
    [][\A c \in Calls, f \in FeatureIds, s \in RequestableStatuses :
          (UpdateFeatureStatusTool(c, f, s) /\ store[f] # NoFeature)
          => /\ lastTool'.featureId = f
             /\ lastTool'.final = store'[f].status
             /\ lastTool'.text \in {"converted", "direct"}
             /\ lastTool'.text = "converted" <=> store'[f].status # s
             /\ lastTool'.text = "converted" =>
                   s = "verified" /\ store'[f].status = "waiting_approval"]_vars

\* The agent of a run on a skipTests feature asked for in_progress: the
\* status was stored as asked and confirmed with the direct text.
C30_Witness ==
    /\ lastTool.text = "direct"
    /\ lastTool.final = "in_progress"
    /\ lastTool.featureId = "feature-1"
    /\ store["feature-1"].skipTests
    /\ store["feature-1"].status = "in_progress"

\* C26: a commitOnly invocation that has returned has passes = true exactly
\* when its stream was consumed to the end.
C26_CommitPassesIffStreamCompleted ==
    \A c \in Calls :
        (/\ kind[c] = "commitOnly"
         /\ pc[c] = "exit"
         /\ outcome.call = c
         /\ outcome.status = "returned")
        => (outcome.passes <=> loopExit[c] = "exhausted")

C31_GatewayChangesOnlyOwnFeature ==
    [][\A c \in Calls, f \in FeatureIds, s \in RequestableStatuses :
          UpdateFeatureStatusTool(c, f, s) =>
             \A b \in FeatureIds \ {feature[c].id} : store'[b] = store[b]]_vars

\* C32: a feature id is running whenever some run that registered it has not
\* unregistered it yet, listAll then holds an entry for it, and listAll never
\* holds two entries for one id.
C32_RunningWhileRegistered ==
    /\ \A f \in FeatureIds :
          outstanding[f] > 0 =>
             /\ isAgentRunning(f)
             /\ \E e \in listAll : e.featureId = f
    /\ \A e1, e2 \in listAll : e1.featureId = e2.featureId => e1 = e2

\* C33: at most one suggestions generation is in flight at any time: no
\* generation is started while an earlier one has not finished or finished
\* aborting.
C33_OneGenerationInFlight ==
    Cardinality({g \in Generations : InFlight(g)}) <= 1

\* C34: a generation that is in flight and was not stopped finds isRunning
\* true and its own controller in currentAbortController, so that POST /stop
\* aborts it; the late .finally handler of an earlier, stopped generation
\* takes neither away.
C34_StopReachesTheGenerationInFlight ==
    \A g \in Generations :
       generation[g].pc = "stream" /\ ~generation[g].aborted
          => isRunning /\ currentAbortController = g

\* C35: a generation whose stream has ended has its handlers run: it ends
\* settled, its .finally handler leaves isRunning false, and it has emitted
\* exactly one terminal event, suggestions_complete when the stream ended
\* without throwing and suggestions_error when it threw.
C35_OneTerminalEvent ==
    /\ \A g \in Generations :
          [](generation[g].ended # "none" => <>(generation[g].pc = "settled"))
    /\ [][\A g \in Generations : FinallyHandler(g) => ~isRunning']_vars
    /\ [](\A g \in Generations :
            generation[g].pc = "settled" =>
               /\ generation[g].complete + generation[g].error = 1
               /\ generation[g].complete = 1 <=> generation[g].ended = "ok"
               /\ generation[g].error = 1 <=> generation[g].ended = "throw")

\* One generation ended normally and one, stopped, threw; both are settled.
C35_Witness ==
    \E g, h \in Generations :
       /\ generation[g].pc = "settled" /\ generation[g].ended = "ok"
       /\ generation[h].pc = "settled" /\ generation[h].ended = "throw"
       /\ generation[h].aborted /\ generation[h].error = 1

\* C36: each subscribe call yields an independent subscription: a callback
\* with a subscribe call whose unsubscribe function was not called yet is
\* in the Set that emit walks, so it keeps receiving events, and calling an
\* unsubscribe function again takes no other subscription away.
C36_SubscriptionsIndependent ==
    /\ [](\A cb \in Callbacks :
            subscriptions[cb].live > 0 => cb \in Range(subscribers))
    /\ [][\A cb \in Callbacks :
            UnsubscribeAgain(cb) /\ subscriptions[cb].live > 0
               => cb \in Range(subscribers')]_vars

\* C37: a callback whose unsubscribe function has returned is not invoked
\* again: every callback an emit invokes is in the Set at that moment, and a
\* callback deleted during an emit and not subscribed again gets no further
\* invocation in it. Deleting a callback during an emit makes no other
\* callback be skipped or invoked twice: when the emit has returned, every
\* callback that stayed subscribed through it was invoked exactly once.
C37_UnsubscribedNeverInvoked ==
    /\ [][\A does \in Behaviours, m \in Callbacks :
            Invoke(does, m) =>
               /\ delivered'[Len(delivered')] \in Range(subscribers)
               /\ \A cb \in removed \ Range(subscribers) :
                     Invocations(cb)' = Invocations(cb)
               /\ (does = "unsubscribe" => m \notin Range(subscribers'))]_vars
    /\ []((emitResult = "returned" /\ removed # {})
            => \A cb \in Stable : Invocations(cb) = 1)

\* The first of three subscribed callbacks deleted itself while it ran, and
\* the emit went on to invoke the other two once each.
C37_Witness ==
    /\ emitResult = "returned"
    /\ Len(atPublish) = 3
    /\ removed = {atPublish[1]}
    /\ delivered = atPublish
    /\ subscribers = <<atPublish[2], atPublish[3]>>

\* C38: the tool handler never throws into the agent stream: whether the
\* feature is not found, the list cannot be loaded or the update fails, the
\* call hands back the failure text as its result, the run stays in its
\* stream, and the Feature Store is as it was before the call.
C38_ToolFailureIsAResult ==
    /\ [](lastTool.text # "thrown")
    /\ [][\A c \in Calls, f \in FeatureIds, s \in RequestableStatuses :
            (\/ UpdateFeatureStatusTool(c, f, s)
             \/ \E fault \in {"load", "update"} :
                   UpdateFeatureStatusToolFails(c, f, s, fault))
            => /\ pc' = pc
               /\ lastTool'.text \in {"failed", "direct", "converted"}
               /\ lastTool'.text = "failed" => store' = store
               /\ FindFeature(loadFeatures, f) = NoFeature
                     => lastTool'.text = "failed"]_vars

\* A tool call for a stored feature failed in the middle of a run of
\* feature-1 that an earlier call had moved to in_progress: the failure text
\* is the result and the stored status is still in_progress.
C38_Witness ==
    /\ lastTool.text = "failed"
    /\ lastTool.featureId = "feature-1"
    /\ store["feature-1"].status = "in_progress"
    /\ pc[lastTool.by] = "stream"

\* C39: after any sequence of create, update and delete, the id of every
\* stored feature record equals the key it is stored under.
C39_IdEqualsStorageKey ==
    \A f \in FeatureIds : store[f] # NoFeature => store[f].id = f
====
